---- MODULE Spec2Model ----
(***************************************************************************)
(* Model of the video_encoder batch pipeline: main() -> VideoEncoder.run() *)
(* -> VideoEncoder.process_video() -> VideoProcessor / AudioProcessor      *)
(* stages, over an abstract file system holding the workspace directories. *)
(* Every external process call is one step whose outcome (exit code, the   *)
(* files it wrote and their quality) is chosen nondeterministically.       *)
(***************************************************************************)
EXTENDS Integers, Sequences, FiniteSets, TLC

\* ---------------------------------------------------------------- bounds
MaxFiles == 2
MaxSegments == 2
MaxTracks == 1
MaxChannels == 9
MaxSize == 2
MaxIndex == 9998
MaxLines == 3
PipeCap == 1

\* ------------------------------------------------------------- constants
None == "none"

\* config.py EncoderConfig.DIRS
DIRS == <<"input", "working", "output", "segments", "encoded_segments", "logs">>

\* encoder.py cleanup_working_dirs: the directories reset per job, in order
TransientDirs == <<"segments", "encoded_segments", "working">>

\* validation.py check_ffmpeg_installed: required_tools
required_tools == {"ffmpeg", "ffprobe", "mediainfo"}

\* config.py SUPPORTED_FORMATS, in the order get_input_files globs them
SUPPORTED_FORMATS == <<"mkv", "mp4">>

\* config.py MIN_FILE_SIZE
MIN_FILE_SIZE == 1024

\* what a produced media file can look like to validate_video_file
Quality == {"ok", "small", "invalid"}

\* what a produced audio file can look like to validate_audio_tracks
AudioQuality == {"ok", "noaudio", "invalid"}

\* ffmpeg's segment muxer pattern %04d.mkv (video.py segment_video)
SegName(k) == <<"0000.mkv", "0001.mkv", "0002.mkv", "0003.mkv", "0004.mkv">>[k + 1]

\* audio.py encode_audio_track: working_dir / f"audio-{track_index}.mkv"
AudioName(t) == <<"audio-0.mkv", "audio-1.mkv", "audio-2.mkv", "audio-3.mkv">>[t + 1]

\* the candidate entries of the input directory, in ascending path order
FileUniverse ==
  << [stem |-> "a", ext |-> "mkv"],
     [stem |-> "a", ext |-> "mp4"],
     [stem |-> "b", ext |-> "mkv"],
     [stem |-> "c", ext |-> "txt"] >>

Range(s) == {s[x] : x \in DOMAIN s}

\* position of a path in ascending path order (Path.__lt__)
PathRank(f) == CHOOSE r \in DOMAIN FileUniverse : FileUniverse[r] = f

\* the possible contents of the input directory
InputDirs == {S \in SUBSET Range(FileUniverse) : Cardinality(S) <= MaxFiles}

\* ------------------------------------------------------------- variables
VARIABLES
  pc,               \* position of main()/run()
  jpc,              \* position inside process_video ("idle" outside a job)
  fs,               \* directory name -> [exists, files]
  inputDir,         \* the files present in the input directory
  missing,          \* the external tools absent from PATH
  input_files,      \* run(): the discovered list
  idx,              \* run(): enumerate index of the file being processed
  stats,            \* VideoEncoder.stats: stem -> ProcessingStats
  processed_videos, \* VideoEncoder.processed_videos
  current_file,     \* ContextLogger.current_file
  now,              \* the clock read by time.time()
  err,              \* the exception in flight inside process_video
  runErr,           \* the exception leaving run()
  exitCode,         \* the value main() returned (-1 while running)
  segments,         \* encode_segments: the sorted list being encoded
  segPos,           \* encode_segments: enumerate index of the next segment
  streams,          \* encode_audio_tracks: number of probed audio streams
  audio_files,      \* encode_audio_tracks: encoded_files so far
  calls,            \* history: the arguments of every process_video call
  returned,         \* history: how the latest process_video call ended
  failures,         \* history: number of process_video calls that raised
  jobOps,           \* history: stage tool invocations of the running job
  cleanupFailed,    \* history: the latest post-job reset failed
  summaryPrinted,   \* history: print_summary ran
  finalReset,       \* history: the finally block of run() reset the workspace
  call,             \* a library function called on its own: arguments, result
  proc,             \* a run_command call: the runner, the child, the pipes
  pool              \* a validate_segments call: the caller, the workers, the log

\* the state of the batch program
progVars == << pc, jpc, fs, inputDir, missing, input_files, idx, stats,
               processed_videos, current_file, now, err, runErr, exitCode,
               segments, segPos, streams, audio_files, calls, returned,
               failures, jobOps, cleanupFailed, summaryPrinted,
               finalReset >>

\* the state of the functions exercised on their own
unitVars == << call, proc, pool >>

vars == << progVars, unitVars >>

\* --------------------------------------------------------------- helpers
NoDir == [exists |-> FALSE, files |-> {}]
EmptyDir == [exists |-> TRUE, files |-> {}]

\* a file of a workspace directory: its name, how it probes, which job
\* wrote it (0: an earlier run) and its audio stream count
File(name, q, by, tracks) == [name |-> name, q |-> q, by |-> by, tracks |-> tracks]

\* writing a path replaces what was stored under that name
WriteFile(dir, f) ==
  [exists |-> TRUE, files |-> {g \in dir.files : g.name # f.name} \cup {f}]

Names(dir) == {g.name : g \in dir.files}

Lookup(dir, name) == CHOOSE g \in dir.files : g.name = name

\* leftovers of an earlier, interrupted run
StaleDir == [exists |-> TRUE, files |-> {File("0000.mkv", "ok", 0, 0)}]

TransientEmpty == \A d \in Range(TransientDirs) : fs[d] = EmptyDir

\* ProcessingStats fields that are still None
NoneNum == -1

\* ------------------------------------------------------------------ Init
\* the workspace before main() starts: nothing there yet, only the input
\* directory mounted, or everything left behind by an interrupted run
InitialWorkspaces ==
  { [d \in Range(DIRS) |-> NoDir],
    [d \in Range(DIRS) |-> IF d = "input" THEN EmptyDir ELSE NoDir],
    [d \in Range(DIRS) |->
        IF d \in Range(TransientDirs) THEN StaleDir ELSE EmptyDir] }

\* the PATH either holds every tool or lacks one of them
ToolSets == {{}} \cup {{t} : t \in required_tools}

\* no function is being exercised on its own
NoCall == [fn |-> None, in |-> None, done |-> FALSE, out |-> None]

\* no run_command call is being followed step by step
NoProc == [pc |-> "off"]

\* no validate_segments call is being followed worker by worker
NoPool == [pc |-> "off"]

\* VideoEncoder.__init__ and the locals of run() and process_video before
\* anything ran
Locals0 ==
  /\ jpc = "idle"
  /\ input_files = <<>>
  /\ idx = 0
  /\ stats = [s \in {} |-> 0]
  /\ processed_videos = <<>>
  /\ current_file = None
  /\ now = 0
  /\ err = None
  /\ runErr = None
  /\ exitCode = -1
  /\ segments = <<>>
  /\ segPos = 0
  /\ streams = 0
  /\ audio_files = <<>>
  /\ calls = <<>>
  /\ returned = None
  /\ failures = 0
  /\ jobOps = <<>>
  /\ cleanupFailed = FALSE
  /\ summaryPrinted = FALSE
  /\ finalReset = FALSE

Init ==
  /\ pc = "main"
  /\ fs \in InitialWorkspaces
  /\ inputDir \in InputDirs
  /\ (~fs["input"].exists => inputDir = {})
  /\ missing \in ToolSets
  /\ Locals0
  /\ call = NoCall
  /\ proc = NoProc
  /\ pool = NoPool

\* ------------------------------------------------- workspace operations
\* variant: every directory is created afresh
MkdirAllRecreate(f) ==
  { [fs |-> [d \in Range(DIRS) |-> EmptyDir], err |-> None] }

\* for dir_path in get_all_dirs().values(): dir_path.mkdir(parents=True,
\* exist_ok=True) -- the outcomes: every directory exists afterwards, or
\* the mkdir of the p-th directory raised after the earlier ones were made
MkdirAllOutcomes(f) ==
  { [fs |-> [d \in Range(DIRS) |->
               IF f[d].exists THEN f[d] ELSE EmptyDir], err |-> None] }
  \cup
  { [fs |-> [d \in Range(DIRS) |->
               IF f[d].exists THEN f[d]
               ELSE IF \E q \in 1..(p - 1) : DIRS[q] = d THEN EmptyDir
               ELSE f[d]],
     err |-> "OSError"] : p \in 1..Len(DIRS) }

\* prepare_directories: the mkdir loop, any failure leaving as
\* VideoEncoderError
prepare_directories(f) ==
  { [fs |-> o.fs,
     err |-> IF o.err = None THEN None ELSE "VideoEncoderError"] :
      o \in MkdirAllOutcomes(f) }

\* variant: the loop runs over every workspace directory
CleanupAllDirs(f) ==
  { [fs |-> [d \in Range(DIRS) |-> EmptyDir], err |-> None] }

\* cleanup_working_dirs: rmtree + mkdir of the three transient directories
\* in order; the outcomes: all three exist and are empty, or the rmtree of
\* the p-th raised (before it removed anything, or when only the emptied
\* directory itself was left to remove), or its mkdir raised (it is gone);
\* the directories after the p-th are untouched.  Every failure leaves as
\* CleanupError.
CleanupOutcomes(f) ==
  { [fs |-> [d \in Range(DIRS) |->
               IF d \in Range(TransientDirs) THEN EmptyDir ELSE f[d]],
     err |-> None] }
  \cup
  UNION { { [fs |-> [d \in Range(DIRS) |->
                       IF \E q \in 1..(p - 1) : TransientDirs[q] = d
                       THEN EmptyDir
                       ELSE IF d = TransientDirs[p] THEN left
                       ELSE f[d]],
             err |-> "CleanupError"] :
              left \in {NoDir} \cup
                       {[exists |-> TRUE, files |-> S] :
                           S \in IF f[TransientDirs[p]].exists
                                 THEN {f[TransientDirs[p]].files, {}}
                                 ELSE {}} } :
          p \in 1..Len(TransientDirs) }

\* ------------------------------------------------------------ validation
\* st_size as validate_video_file sees it
FileSize(g) == IF g.q = "small" THEN MIN_FILE_SIZE - 1 ELSE MIN_FILE_SIZE

\* Path.glob("*.mkv")
GlobMkv(dir) == {n \in Names(dir) : n # "concat.txt"}

\* what is at a path: nothing, a directory, or a regular file of some
\* size that ffprobe accepts or rejects
Absent == [kind |-> "absent", size |-> 0, valid |-> FALSE]

\* the path `name` of `dir` as validate_video_file finds it
Stat(dir, name) ==
  IF name \notin Names(dir) THEN Absent
  ELSE [kind |-> "file",
        size |-> FileSize(Lookup(dir, name)),
        valid |-> Lookup(dir, name).q # "invalid"]

\* variant: a file of exactly the minimum size is rejected
validate_video_file_strict(file, step) ==
  IF file.kind # "file" THEN "FileNotFoundError"
  ELSE IF file.size <= MIN_FILE_SIZE THEN "FileSizeError"
  ELSE IF "ffprobe" \in missing THEN "OSError"
  ELSE IF ~file.valid THEN "InvalidVideoError"
  ELSE None

\* validate_video_file: the error it raises, or None; `step` is the
\* context label, which only goes into the messages
validate_video_file(file, step) ==
  IF file.kind # "file" THEN "FileNotFoundError"
  ELSE IF file.size < MIN_FILE_SIZE THEN "FileSizeError"
  ELSE IF "ffprobe" \in missing THEN "OSError"
  ELSE IF ~file.valid THEN "InvalidVideoError"
  ELSE None

\* validate_video_file on the path `name` of `dir`
ValidateVideoFile(dir, name) == validate_video_file(Stat(dir, name), "")

\* variant: the number of files found is not compared with the minimum
ValidateSegmentsNoCount(dir, min_segments) ==
  {ValidateVideoFile(dir, n) : n \in GlobMkv(dir)} \ {None}

\* validate_segments: the errors it can raise (which failing file is listed
\* first depends on the glob order); the empty set when it passes
ValidateSegments(dir, min_segments) ==
  IF Cardinality(GlobMkv(dir)) < min_segments THEN {"ValidationError"}
  ELSE {ValidateVideoFile(dir, n) : n \in GlobMkv(dir)} \ {None}

\* validate_segments: the files handed to validate_video_file
ValidatedFiles(dir, min_segments) ==
  IF Cardinality(GlobMkv(dir)) < min_segments THEN {}
  ELSE GlobMkv(dir)

\* variant: the encoded tracks are not validated
ValidateAudioTracksSkip(dir, i, expected_tracks) == None

\* validate_audio_tracks: the tracks are probed in index order, the first
\* one that fails raises
RECURSIVE ValidateAudioTracks(_, _, _)
ValidateAudioTracks(dir, i, expected_tracks) ==
  IF i >= expected_tracks THEN None
  ELSE IF AudioName(i) \notin Names(dir) THEN "FileNotFoundError"
  ELSE IF "ffprobe" \in missing THEN "OSError"
  ELSE IF Lookup(dir, AudioName(i)).q = "invalid" THEN "ProcessError"
  ELSE IF Lookup(dir, AudioName(i)).q = "noaudio" THEN "ValidationError"
  ELSE ValidateAudioTracks(dir, i + 1, expected_tracks)

\* variant: only a final file with too few audio streams is rejected
ValidateFinalOutputAtLeast(dir, name, expected_audio_tracks) ==
  IF ValidateVideoFile(dir, name) # None THEN ValidateVideoFile(dir, name)
  ELSE IF Lookup(dir, name).tracks < expected_audio_tracks
       THEN "ValidationError"
  ELSE None

\* validate_final_output
ValidateFinalOutput(dir, name, expected_audio_tracks) ==
  IF ValidateVideoFile(dir, name) # None THEN ValidateVideoFile(dir, name)
  ELSE IF Lookup(dir, name).tracks # expected_audio_tracks
       THEN "ValidationError"
  ELSE None

\* ------------------------------------------------------- input discovery
\* the orders in which iterating a directory can yield its entries
Listings(S) ==
  {s \in [1..Cardinality(S) -> S] :
     \A j, k \in 1..Cardinality(S) : j # k => s[j] # s[k]}

\* input_dir.glob(f"*.{fmt}"), in the order the directory yields them
Glob(listing, fmt) == SelectSeq(listing, LAMBDA f : f.ext = fmt)

\* for fmt in SUPPORTED_FORMATS from the k-th on: files.extend(glob)
RECURSIVE GlobFormats(_, _)
GlobFormats(listing, k) ==
  IF k > Len(SUPPORTED_FORMATS) THEN <<>>
  ELSE Glob(listing, SUPPORTED_FORMATS[k]) \o GlobFormats(listing, k + 1)

\* sorted(files) of a list of paths
RECURSIVE SortPaths(_)
SortPaths(files) ==
  IF files = <<>> THEN <<>>
  ELSE LET f == Head(files)
           rest == SortPaths(Tail(files))
       IN SelectSeq(rest, LAMBDA g : PathRank(g) < PathRank(f))
            \o <<f>>
            \o SelectSeq(rest, LAMBDA g : PathRank(g) >= PathRank(f))

\* variant: the list is returned in glob order
get_input_files_unsorted(listing) ==
  IF GlobFormats(listing, 1) = <<>>
  THEN [err |-> "VideoEncoderError", files |-> <<>>]
  ELSE [err |-> None, files |-> GlobFormats(listing, 1)]

\* get_input_files: glob per supported format, raise when nothing was
\* found, else sorted(files)
get_input_files(listing) ==
  IF GlobFormats(listing, 1) = <<>>
  THEN [err |-> "VideoEncoderError", files |-> <<>>]
  ELSE [err |-> None, files |-> SortPaths(GlobFormats(listing, 1))]

\* segment names are compared as strings; SegName is ascending
RECURSIVE SortNames(_)
SortNames(S) ==
  IF S = {} THEN <<>>
  ELSE LET m == CHOOSE x \in S :
                  \A y \in S :
                    (CHOOSE k \in 0..4 : SegName(k) = x)
                      <= (CHOOSE k \in 0..4 : SegName(k) = y)
       IN <<m>> \o SortNames(S \ {m})

\* Path.name of an input file
FileName(f) ==
  CASE f = [stem |-> "a", ext |-> "mkv"] -> "a.mkv"
    [] f = [stem |-> "a", ext |-> "mp4"] -> "a.mp4"
    [] f = [stem |-> "b", ext |-> "mkv"] -> "b.mkv"

\* f"{vid_file}.mkv"
OutName(stem) == IF stem = "a" THEN "a.mkv" ELSE "b.mkv"

\* sizes recorded in the statistics
InputSize == 2 * MIN_FILE_SIZE

\* --------------------------------------------------- control-flow points
\* variant: the per-file handler re-raises instead of continuing
LoopRaisedPropagate(raised) == raised

\* run(): what leaves the body of the per-file loop when process_video
\* raised (except Exception: log, continue)
LoopRaised(raised) == None

\* variant: the per-file handler breaks out of the loop on a failure
RunContinueBreak(i, raised) ==
  IF raised # None THEN Len(input_files) + 1 ELSE i + 1

\* variant: a file whose job failed is processed again
RunContinueRetry(i, raised) == IF raised # None THEN i ELSE i + 1

\* run(): the index the loop goes on with after a file
RunContinue(i, raised) == i + 1

\* main(): the return value for what run() raised
MainReturn(raised) == IF raised = None THEN 0 ELSE 1

\* variant: the pre-job cleanup failure is only logged
PreCleanupSwallowed(cleanupErr) == None

\* process_video: what the pre-job cleanup_working_dirs call raises into
\* the try block
PreCleanupRaised(cleanupErr) == cleanupErr

\* variant: the finally block lets the cleanup failure escape
FinallyRaisedCleanup(inflight, cleanupErr) ==
  IF cleanupErr # None THEN cleanupErr ELSE inflight

\* process_video finally: the exception that leaves process_video, given
\* the one in flight and the outcome of the post-job cleanup
FinallyRaised(inflight, cleanupErr) == inflight

\* variant: a failed segment is logged and the loop goes on
EncodeSegmentsSwallow(e) == None

\* encode_segments: what leaves the loop body when encode_segment raised
EncodeSegmentsOnError(e) == e

\* variant: concatenation is left out of the sequence
NextStageSkipConcat(stage) ==
  CASE stage = "preclean" -> "detect"
    [] stage = "detect" -> "segment"
    [] stage = "segment" -> "encode"
    [] stage = "encode" -> "audio_probe"
    [] stage = "concat" -> "audio_probe"
    [] stage = "audio" -> "remux"
    [] stage = "remux" -> "completed"

\* variant: an input without audio streams is rejected
NoAudioStreamsRejected(n) == IF n = 0 THEN "AudioError" ELSE None

\* encode_audio_tracks: what a probe that found n streams raises
\* (if not audio_streams: return [])
NoAudioStreams(n) == None

\* variant: only a non-zero exit of the tool is wrapped
StageErrorProcessOnly(stage, cause) ==
  IF cause # "CalledProcessError" THEN cause
  ELSE CASE stage = "segment" -> "SegmentationError"
         [] stage = "concat" -> "ConcatenationError"
         [] stage = "remux" -> "RemuxError"

\* segment_video, concatenate_segments, remux_tracks: what their handlers
\* (except CalledProcessError / except Exception) raise for `cause`
StageError(stage, cause) ==
  CASE stage = "segment" -> "SegmentationError"
    [] stage = "concat" -> "ConcatenationError"
    [] stage = "remux" -> "RemuxError"

\* what run_command raises for the exit status `rc` (127: the tool could
\* not be started), None when it returns
ToolError(rc) ==
  IF rc = 0 THEN None
  ELSE IF rc = 127 THEN "OSError"
  ELSE "CalledProcessError"

\* process_video: the statement sequence of the try block
NextStage(stage) ==
  CASE stage = "preclean" -> "detect"
    [] stage = "detect" -> "segment"
    [] stage = "segment" -> "encode"
    [] stage = "encode" -> "concat"
    [] stage = "concat" -> "audio_probe"
    [] stage = "audio" -> "remux"
    [] stage = "remux" -> "completed"

\* ------------------------------------------------------------ main, run
jobVars == << jpc, stats, processed_videos, current_file, err, segments,
              segPos, streams, audio_files, jobOps, cleanupFailed >>

\* main.py init(): create the directories, set up logging
MainInit ==
  /\ UNCHANGED unitVars
  /\ pc = "main"
  /\ \E o \in MkdirAllOutcomes(fs) :
       /\ fs' = o.fs
       /\ IF o.err # None
          THEN /\ exitCode' = 1
               /\ pc' = "done"
          ELSE \/ /\ pc' = "prepare"
                  /\ UNCHANGED exitCode
               \/ /\ exitCode' = 1      \* setup_logging raised
                  /\ pc' = "done"
  /\ now' = IF pc' = "prepare" THEN now + 1 ELSE now
  /\ UNCHANGED << inputDir, missing, input_files, idx, runErr, calls,
                  returned, failures, summaryPrinted,
                  finalReset >>
  /\ UNCHANGED jobVars

\* run(): prepare_directories
PrepareDirectories ==
  /\ UNCHANGED unitVars
  /\ pc = "prepare"
  /\ \E o \in MkdirAllOutcomes(fs) :
       /\ fs' = o.fs
       /\ IF o.err # None
          THEN /\ runErr' = "VideoEncoderError"
               /\ pc' = "final"
          ELSE /\ pc' = "discover"
               /\ UNCHANGED runErr
  /\ UNCHANGED << inputDir, missing, input_files, idx, now, exitCode, calls,
                  returned, failures, summaryPrinted,
                  finalReset >>
  /\ UNCHANGED jobVars

\* run(): get_input_files
GetInputFiles ==
  /\ UNCHANGED unitVars
  /\ pc = "discover"
  /\ \E listing \in Listings(inputDir) :
       LET found == get_input_files(listing)
       IN IF found.err # None
          THEN /\ runErr' = found.err
               /\ pc' = "final"
               /\ UNCHANGED << input_files, idx >>
          ELSE /\ input_files' = found.files
               /\ idx' = 1
               /\ pc' = "loop"
               /\ UNCHANGED runErr
  /\ UNCHANGED << fs, inputDir, missing, now, exitCode, calls, returned, failures,
                  summaryPrinted,
                  finalReset >>
  /\ UNCHANGED jobVars

\* control is handed back to the loop of run() with `raised`
ReturnToRunner(raised) ==
  /\ returned' = IF raised = None THEN "ok" ELSE raised
  /\ failures' = IF raised = None THEN failures ELSE failures + 1
  /\ IF LoopRaised(raised) # None
     THEN /\ runErr' = LoopRaised(raised)
          /\ pc' = "final"
          /\ UNCHANGED idx
     ELSE /\ idx' = RunContinue(idx, raised)
          /\ pc' = IF RunContinue(idx, raised) > Len(input_files)
                   THEN "summary" ELSE "loop"
          /\ UNCHANGED runErr

\* run(): print_summary
PrintSummary ==
  /\ UNCHANGED unitVars
  /\ pc = "summary"
  /\ IF \A v \in Range(processed_videos) : v \in DOMAIN stats
     THEN /\ summaryPrinted' = TRUE
          /\ UNCHANGED runErr
     ELSE /\ runErr' = "KeyError"
          /\ UNCHANGED summaryPrinted
  /\ now' = now + 1
  /\ pc' = "final"
  /\ UNCHANGED << fs, inputDir, missing, input_files, idx, exitCode,
                  calls, returned, failures, finalReset >>
  /\ UNCHANGED jobVars

\* variant: run() has no finally block
RunFinallyNothing(f) == {[fs |-> f, err |-> "skipped"]}

\* run() finally: what cleanup_working_dirs("final") can leave
RunFinally(f) == CleanupOutcomes(f)

\* run() finally: cleanup_working_dirs("final"), failure only logged; then
\* run() returns or raises into main()
FinalCleanup ==
  /\ UNCHANGED unitVars
  /\ pc = "final"
  /\ \E o \in RunFinally(fs) :
       /\ fs' = o.fs
       /\ finalReset' = (o.err # "skipped")
  /\ exitCode' = MainReturn(runErr)
  /\ pc' = "done"
  /\ UNCHANGED << inputDir, missing, input_files, idx, now, runErr, calls,
                  returned, failures, summaryPrinted >>
  /\ UNCHANGED jobVars

\* --------------------------------------------------------- process_video
runVars == << pc, inputDir, missing, input_files, idx, runErr, exitCode,
              calls, returned, failures, summaryPrinted,
              finalReset >>

vid_file == input_files[idx].stem

Op(op, arg, ok) == [op |-> op, arg |-> arg, ok |-> ok]

\* variant: the pre-job cleanup is called ahead of the try block
OnRaiseOutsideTry(stage) == IF stage = "preclean" THEN "failed" ELSE "except"

\* variant: a failed segmentation is attempted again
OnRaiseRetry(stage) == IF stage = "segment" THEN "segment" ELSE "except"

\* where an exception raised by a statement of the try block is handled:
\* no statement has a handler of its own that resumes the sequence
OnRaise(stage) == "except"

\* an exception is raised inside the try block
Raise(e) ==
  /\ err' = e
  /\ jpc' = OnRaise(jpc)

\* process_video up to the try block: the Job record, processed_videos,
\* the logger context.  input_path.stat() is evaluated while the
\* ProcessingStats arguments are built, before anything is recorded.
StartJob ==
  /\ UNCHANGED unitVars
  /\ pc = "loop"
  /\ jpc = "idle"
  /\ idx <= Len(input_files)
  /\ calls' = Append(calls, input_files[idx])
  /\ \/ /\ ReturnToRunner("OSError")     \* stat() raised: dangling link
        /\ UNCHANGED << jpc, stats, processed_videos, current_file, now >>
     \/ /\ stats' = [s \in DOMAIN stats \cup {vid_file} |->
                       IF s = vid_file
                       THEN [filename |-> vid_file,
                             start_time |-> now,
                             end_time |-> NoneNum,
                             input_size |-> InputSize,
                             output_size |-> NoneNum,
                             segment_count |-> NoneNum,
                             audio_tracks |-> NoneNum]
                       ELSE stats[s]]
        /\ now' = now + 1
        /\ processed_videos' = Append(processed_videos, vid_file)
        /\ current_file' = FileName(input_files[idx])
        /\ jpc' = "preclean"
        /\ returned' = None
        /\ UNCHANGED << pc, idx, runErr, failures >>
  /\ UNCHANGED << fs, inputDir, missing, input_files, err, exitCode,
                  segments, segPos, streams, audio_files, jobOps,
                  summaryPrinted,
                  finalReset >>
  /\ cleanupFailed' = FALSE

\* try: cleanup_working_dirs(vid_file)
PreClean ==
  /\ UNCHANGED unitVars
  /\ jpc = "preclean"
  /\ \E o \in CleanupOutcomes(fs) :
       /\ fs' = o.fs
       /\ IF PreCleanupRaised(o.err) # None
          THEN Raise(PreCleanupRaised(o.err))
          ELSE /\ jpc' = NextStage("preclean")
               /\ UNCHANGED err
  /\ UNCHANGED runVars
  /\ UNCHANGED << stats, processed_videos, current_file, now, segments,
                  segPos, streams, audio_files, jobOps, cleanupFailed >>

\* detect_dolby_vision: a non-zero exit of mediainfo is caught; a tool
\* that cannot be started raises OSError, which is not
DetectDolbyVision ==
  /\ UNCHANGED unitVars
  /\ jpc = "detect"
  /\ IF "mediainfo" \in missing
     THEN /\ Raise("OSError")
          /\ jobOps' = Append(jobOps, Op("mediainfo", "", FALSE))
     ELSE /\ \E ok \in BOOLEAN :
               jobOps' = Append(jobOps, Op("mediainfo", "", ok))
          /\ jpc' = NextStage("detect")
          /\ UNCHANGED err
  /\ UNCHANGED runVars
  /\ UNCHANGED << fs, stats, processed_videos, current_file, now, segments,
                  segPos, streams, audio_files, cleanupFailed >>

\* What a tool run leaves is enumerated up to what the program can
\* observe: a run that exited non-zero is never validated, so its files
\* are all recorded as "invalid"; validation stops at the first file it
\* rejects, so at most one file of a run is defective.
AtMostOneDefect(q) ==
  \A a, b \in DOMAIN q : (q[a] # "ok" /\ q[b] # "ok") => a = b

Partial(rc, wrote, q) ==
  /\ (~wrote => q = "ok")
  /\ ((rc # 0 /\ wrote) => q = "invalid")

\* the files a tool run can leave in `dir` under the names `names`
Written(dir, names, q, by) ==
  [exists |-> TRUE,
   files |-> {g \in dir.files : g.name \notin names}
             \cup {File(n, q[n], by, 0) : n \in names}]

\* segment_video, then stats.segment_count and the head of
\* encode_segments (the sorted listing)
SegmentVideo ==
  /\ UNCHANGED unitVars
  /\ jpc = "segment"
  /\ \E n \in 0..(IF "ffmpeg" \in missing THEN 0 ELSE MaxSegments) :
     \E q \in [{SegName(k) : k \in 0..(n - 1)} -> Quality] :
     \E rc \in (IF "ffmpeg" \in missing THEN {127} ELSE {0, 1}) :
       LET dir == Written(fs["segments"], DOMAIN q, q, idx)
           causes == IF rc # 0 THEN {ToolError(rc)}
                     ELSE ValidateSegments(dir, 1)
           failed == causes # {}
       IN /\ IF rc # 0 THEN \A x \in DOMAIN q : q[x] = "invalid"
             ELSE AtMostOneDefect(q)
          /\ fs' = [fs EXCEPT !["segments"] = dir]
          /\ jobOps' = Append(jobOps, Op("segment", "", ~failed))
          /\ IF failed
             THEN /\ \E c \in causes : Raise(StageError("segment", c))
                  /\ UNCHANGED << stats, segments, segPos >>
             ELSE /\ stats' = [stats EXCEPT ![vid_file].segment_count =
                                               Cardinality(GlobMkv(dir))]
                  /\ segments' = SortNames(GlobMkv(dir))
                  /\ segPos' = 1
                  /\ jpc' = NextStage("segment")
                  /\ UNCHANGED err
  /\ UNCHANGED runVars
  /\ UNCHANGED << processed_videos, current_file, now, streams, audio_files,
                  cleanupFailed >>

\* variant: the encoded file is numbered from one
EncodedNameFromOne(name) ==
  SegName(1 + CHOOSE k \in 0..3 : SegName(k) = name)

\* encode_segment: output_file = output_dir / segment.name
EncodedName(name) == name

\* one iteration of the loop of encode_segments: encode_segment(segment)
EncodeSegment ==
  /\ UNCHANGED unitVars
  /\ jpc = "encode"
  /\ segPos <= Len(segments)
  /\ \E rc \in {0, 1} :
     \E wrote \in BOOLEAN :
     \E q \in Quality :
       LET name == segments[segPos]
           dir == IF wrote
                  THEN WriteFile(fs["encoded_segments"],
                                 File(EncodedName(name), q, idx, 0))
                  ELSE fs["encoded_segments"]
           e == IF rc # 0 THEN "CalledProcessError"
                ELSE IF EncodedName(name) \notin Names(dir) THEN "OSError"
                ELSE ValidateVideoFile(dir, EncodedName(name))
       IN /\ Partial(rc, wrote, q)
          /\ fs' = [fs EXCEPT !["encoded_segments"] = dir]
          /\ jobOps' = Append(jobOps, Op("encode", name, e = None))
          /\ IF e # None /\ EncodeSegmentsOnError(e) # None
             THEN /\ Raise(EncodeSegmentsOnError(e))
                  /\ UNCHANGED segPos
             ELSE /\ segPos' = segPos + 1
                  /\ UNCHANGED << jpc, err >>
  /\ UNCHANGED runVars
  /\ UNCHANGED << stats, processed_videos, current_file, now, segments,
                  streams, audio_files, cleanupFailed >>

\* the tail of encode_segments: validate_segments(encoded_dir, total)
EncodeSegmentsDone ==
  /\ UNCHANGED unitVars
  /\ jpc = "encode"
  /\ segPos > Len(segments)
  /\ LET errs == ValidateSegments(fs["encoded_segments"], Len(segments))
     IN IF errs # {}
        THEN \E e \in errs : Raise(e)
        ELSE /\ jpc' = NextStage("encode")
             /\ UNCHANGED err
  /\ UNCHANGED runVars
  /\ UNCHANGED << fs, stats, processed_videos, current_file, now, segments,
                  segPos, streams, audio_files, jobOps, cleanupFailed >>

\* concatenate_segments: manifest, ffmpeg concat, unlink, validation
ConcatenateSegments ==
  /\ UNCHANGED unitVars
  /\ jpc = "concat"
  /\ \E rc \in (IF "ffmpeg" \in missing THEN {127} ELSE {0, 1}) :
     \E wrote \in (IF "ffmpeg" \in missing THEN {FALSE} ELSE BOOLEAN) :
     \E q \in Quality :
       LET manifest == WriteFile(fs["encoded_segments"],
                                 File("concat.txt", "ok", idx, 0))
           enc == IF rc # 0 THEN manifest ELSE fs["encoded_segments"]
           work == IF wrote
                   THEN WriteFile(fs["working"],
                                  File(OutName(vid_file), q, idx, 0))
                   ELSE fs["working"]
           cause == IF rc # 0 THEN ToolError(rc)
                    ELSE IF OutName(vid_file) \notin Names(work)
                         THEN "OSError"      \* output_file.stat()
                    ELSE ValidateVideoFile(work, OutName(vid_file))
           failed == cause # None
       IN /\ Partial(rc, wrote, q)
          /\ fs' = [fs EXCEPT !["encoded_segments"] = enc,
                              !["working"] = work]
          /\ jobOps' = Append(jobOps, Op("concat", "", ~failed))
          /\ IF failed
             THEN Raise(StageError("concat", cause))
             ELSE /\ jpc' = NextStage("concat")
                  /\ UNCHANGED err
  /\ UNCHANGED runVars
  /\ UNCHANGED << stats, processed_videos, current_file, now, segments,
                  segPos, streams, audio_files, cleanupFailed >>

\* encode_audio_tracks: get_audio_info (ffprobe), the empty-list return
AudioProbe ==
  /\ UNCHANGED unitVars
  /\ jpc = "audio_probe"
  /\ audio_files' = <<>>
  /\ IF "ffprobe" \in missing
     THEN /\ Raise("OSError")
          /\ jobOps' = Append(jobOps, Op("audio_probe", "", FALSE))
          /\ UNCHANGED << stats, streams >>
     ELSE \/ /\ \E e \in {"ProcessError", "AudioError"} : Raise(e)
             /\ jobOps' = Append(jobOps, Op("audio_probe", "", FALSE))
             /\ UNCHANGED << stats, streams >>
          \/ /\ \E n \in 0..MaxTracks :
                  /\ streams' = n
                  /\ IF NoAudioStreams(n) # None
                     THEN /\ Raise(NoAudioStreams(n))
                          /\ UNCHANGED stats
                     ELSE IF n = 0
                     THEN /\ stats' = [stats EXCEPT
                                         ![vid_file].audio_tracks = 0]
                          /\ jpc' = NextStage("audio")
                          /\ UNCHANGED err
                     ELSE /\ jpc' = "audio_encode"
                          /\ UNCHANGED << stats, err >>
             /\ jobOps' = Append(jobOps, Op("audio_probe", "", TRUE))
  /\ UNCHANGED runVars
  /\ UNCHANGED << fs, processed_videos, current_file, now, segments, segPos,
                  cleanupFailed >>

\* one iteration of the loop of encode_audio_tracks: encode_audio_track
EncodeAudioTrack ==
  /\ UNCHANGED unitVars
  /\ jpc = "audio_encode"
  /\ Len(audio_files) < streams
  /\ LET name == AudioName(Len(audio_files))
     IN IF "ffmpeg" \in missing
        THEN /\ Raise("OSError")
             /\ jobOps' = Append(jobOps, Op("audio_encode", name, FALSE))
             /\ UNCHANGED << fs, audio_files >>
        ELSE \E rc \in {0, 1} :
             \E wrote \in BOOLEAN :
             \E q \in AudioQuality :
               /\ Partial(rc, wrote, q)
               /\ fs' = [fs EXCEPT !["working"] =
                           IF wrote
                           THEN WriteFile(@, File(name, q, idx, 1))
                           ELSE @]
               /\ jobOps' = Append(jobOps, Op("audio_encode", name, rc = 0))
               /\ IF rc # 0
                  THEN /\ Raise("AudioError")
                       /\ UNCHANGED audio_files
                  ELSE /\ audio_files' = Append(audio_files, name)
                       /\ jpc' = IF Len(audio_files) + 1 < streams
                                 THEN "audio_encode" ELSE "audio_validate"
                       /\ UNCHANGED err
  /\ UNCHANGED runVars
  /\ UNCHANGED << stats, processed_videos, current_file, now, segments,
                  segPos, streams, cleanupFailed >>

\* the tail of encode_audio_tracks: validate_audio_tracks, then
\* stats.audio_tracks = len(audio_files)
AudioValidate ==
  /\ UNCHANGED unitVars
  /\ jpc = "audio_validate"
  /\ LET e == ValidateAudioTracks(fs["working"], 0, streams)
     IN IF e # None
        THEN /\ Raise(e)
             /\ UNCHANGED stats
        ELSE /\ stats' = [stats EXCEPT
                            ![vid_file].audio_tracks = Len(audio_files)]
             /\ jpc' = NextStage("audio")
             /\ UNCHANGED err
  /\ UNCHANGED runVars
  /\ UNCHANGED << fs, processed_videos, current_file, now, segments, segPos,
                  streams, audio_files, jobOps, cleanupFailed >>

\* variant: the size of the output is not recorded
OutputSizeUnset(dir, name) == NoneNum

\* process_video: final_output.stat().st_size
OutputSize(dir, name) == FileSize(Lookup(dir, name))

\* remux_tracks into the output directory, validate_final_output, then
\* stats.output_size and stats.end_time
RemuxTracks ==
  /\ UNCHANGED unitVars
  /\ jpc = "remux"
  /\ \E rc \in (IF "ffmpeg" \in missing THEN {127} ELSE {0, 1}) :
     \E wrote \in (IF "ffmpeg" \in missing THEN {FALSE} ELSE BOOLEAN) :
     \E q \in Quality :
     \E tr \in 0..MaxTracks :
       LET name == OutName(vid_file)
           out == IF wrote
                  THEN WriteFile(fs["output"], File(name, q, idx, tr))
                  ELSE fs["output"]
           cause == IF rc # 0 THEN ToolError(rc)
                    ELSE ValidateFinalOutput(out, name, Len(audio_files))
           failed == cause # None
       IN /\ Partial(rc, wrote, q)
          /\ (q # "ok" \/ ~wrote) => tr = 0   \* never probed for streams
          /\ fs' = [fs EXCEPT !["output"] = out]
          /\ jobOps' = Append(jobOps, Op("remux", "", ~failed))
          /\ IF failed
             THEN /\ Raise(StageError("remux", cause))
                  /\ UNCHANGED << stats, now >>
             ELSE /\ stats' = [stats EXCEPT
                                 ![vid_file].output_size =
                                     OutputSize(out, name),
                                 ![vid_file].end_time = now]
                  /\ now' = now + 1
                  /\ jpc' = NextStage("remux")
                  /\ UNCHANGED err
  /\ UNCHANGED runVars
  /\ UNCHANGED << processed_videos, current_file, segments, segPos, streams,
                  audio_files, cleanupFailed >>

\* except Exception: log, stats.end_time = time.time(), raise
Except ==
  /\ UNCHANGED unitVars
  /\ jpc = "except"
  /\ stats' = [stats EXCEPT ![vid_file].end_time = now]
  /\ now' = now + 1
  /\ jpc' = "failed"
  /\ UNCHANGED runVars
  /\ UNCHANGED << fs, processed_videos, current_file, err, segments, segPos,
                  streams, audio_files, jobOps, cleanupFailed >>

\* variant: the logger context is left as it is
FinallyContextKept(cur) == cur

\* process_video finally: self.logger.set_current_file(None)
FinallyContext(cur) == None

\* finally: clear the logger context, cleanup_working_dirs with its
\* failure only logged; process_video then returns or raises into run()
Finally ==
  /\ UNCHANGED unitVars
  /\ jpc \in {"completed", "failed"}
  /\ current_file' = FinallyContext(current_file)
  /\ \E o \in CleanupOutcomes(fs) :
       /\ fs' = o.fs
       /\ cleanupFailed' = (o.err # None)
       /\ ReturnToRunner(FinallyRaised(err, o.err))
  /\ err' = None
  /\ jpc' = "idle"
  /\ segments' = <<>>       \* the locals of the call are gone
  /\ segPos' = 0
  /\ streams' = 0
  /\ audio_files' = <<>>
  /\ jobOps' = <<>>
  /\ UNCHANGED << inputDir, missing, input_files, exitCode, calls,
                  summaryPrinted, finalReset, stats, processed_videos, now >>

\* ------------------------------------------------------- specification
Next ==
  \/ MainInit
  \/ PrepareDirectories
  \/ GetInputFiles
  \/ StartJob
  \/ PreClean
  \/ DetectDolbyVision
  \/ SegmentVideo
  \/ EncodeSegment
  \/ EncodeSegmentsDone
  \/ ConcatenateSegments
  \/ AudioProbe
  \/ EncodeAudioTrack
  \/ AudioValidate
  \/ RemuxTracks
  \/ Except
  \/ Finally
  \/ PrintSummary
  \/ FinalCleanup

Spec == Init /\ [][Next]_vars

\* ------------------------------------------- functions called on their own
\* config.py AUDIO_BITRATES
AUDIO_BITRATES == (1 :> 64) @@ (2 :> 128) @@ (6 :> 256) @@ (8 :> 384)

\* variant: the table is ignored
get_audio_bitrate_formula(channels) == channels * 48

\* EncoderConfig.get_audio_bitrate: AUDIO_BITRATES.get(channels, channels * 48)
get_audio_bitrate(channels) ==
  IF channels \in DOMAIN AUDIO_BITRATES
  THEN AUDIO_BITRATES[channels]
  ELSE channels * 48

\* the truth value Python gives an Optional[int]
Truthy(x) == x # NoneNum /\ x # 0

\* a quotient of two sizes, kept as the pair it is computed from
Ratio(a, b) == [defined |-> TRUE, num |-> a, den |-> b]
NoRatio == [defined |-> FALSE, num |-> 0, den |-> 0]

\* ProcessingStats.compression_ratio
compression_ratio(input_size, output_size) ==
  IF Truthy(input_size) /\ Truthy(output_size)
  THEN Ratio(input_size, output_size)
  ELSE NoRatio

\* variant: the end time is tested for truth, not for None
duration_truthy(start_time, end_time) ==
  IF ~Truthy(end_time) THEN 0 ELSE end_time - start_time

\* ProcessingStats.duration
duration(start_time, end_time) ==
  IF end_time = NoneNum THEN 0 ELSE end_time - start_time

\* file names as strings of code points, compared the way Python compares
\* str: '.' is 46, '0'..'9' are 48..57, 'k' 107, 'm' 109, 'v' 118
RECURSIVE Decimal(_)
Decimal(k) ==
  IF k < 10 THEN <<48 + k>> ELSE Decimal(k \div 10) \o <<48 + (k % 10)>>

RECURSIVE ZeroPad(_, _)
ZeroPad(str, width) ==
  IF Len(str) >= width THEN str ELSE ZeroPad(<<48>> \o str, width)

\* variant: the segment pattern is %d.mkv
SegFormatUnpadded(k) == Decimal(k) \o <<46, 109, 107, 118>>

\* the name ffmpeg's segment muxer gives segment k under '%04d.mkv'
SegFormat(k) == ZeroPad(Decimal(k), 4) \o <<46, 109, 107, 118>>

\* str.__lt__: the first differing code point decides, a proper prefix is
\* smaller
RECURSIVE StrLess(_, _)
StrLess(a, b) ==
  IF b = <<>> THEN FALSE
  ELSE IF a = <<>> THEN TRUE
  ELSE IF Head(a) # Head(b) THEN Head(a) < Head(b)
  ELSE StrLess(Tail(a), Tail(b))

\* sorted(dir.glob('*.mkv')) for files of one directory
RECURSIVE sorted(_)
sorted(names) ==
  IF names = {} THEN <<>>
  ELSE LET m == CHOOSE x \in names :
                  \A y \in names : x = y \/ StrLess(x, y)
       IN <<m>> \o sorted(names \ {m})

\* the segment numbers a listing is exercised on: around every change of
\* the number of digits, up to the last of 9999 segments
SegIndexes == {0, 1, 2, 9, 10, 11, 99, 100, 999, 1000, MaxIndex}

\* the values an Optional[int] size field is drawn from
Sizes == {NoneNum} \cup 0..MaxSize

Pending(fn, in) == [fn |-> fn, in |-> in, done |-> FALSE, out |-> None]

\* the directories validate_segments is exercised on: any of the segment
\* names present in any condition, with or without a file that is no *.mkv
SegmentDirs ==
  UNION { { [exists |-> TRUE,
             files |-> {File(n, q[n], 0, 0) : n \in DOMAIN q}
                       \cup {File("concat.txt", "ok", 0, 0) : x \in other}] :
              q \in [S -> Quality], other \in SUBSET {1} } :
          S \in SUBSET {SegName(k) : k \in 0..(MaxSegments - 1)} }

\* what validate_video_file is exercised on: every kind of path, sizes
\* around the minimum, with either verdict of the prober
PathStates ==
  {[kind |-> k, size |-> z, valid |-> v] :
     k \in {"absent", "dir", "file"},
     z \in {0, MIN_FILE_SIZE - 1, MIN_FILE_SIZE, MIN_FILE_SIZE + 1},
     v \in BOOLEAN}

\* the workspaces prepare_directories is exercised on: any subset of the
\* six directories existing, each empty or holding a file
Workspaces == [Range(DIRS) -> {NoDir, EmptyDir, StaleDir}]

\* the calls exercised, each with its arguments
Calls ==
  {Pending("prepare_directories", [fs |-> f]) : f \in Workspaces}
  \cup
  {Pending("cleanup_working_dirs", [fs |-> f]) : f \in Workspaces}
  \cup
  {Pending("validate_video_file", [file |-> f, step |-> st]) :
     f \in PathStates, st \in {"Segment validation", "Final output"}}
  \cup
  {Pending("sorted_glob", [indexes |-> S]) :
     S \in {T \in SUBSET SegIndexes : Cardinality(T) <= MaxSegments + 1}}
  \cup
  {Pending("validate_segments", [dir |-> d, min_segments |-> m]) :
     d \in SegmentDirs, m \in 0..(MaxSegments + 1)}
  \cup
  {Pending("get_audio_bitrate", [channels |-> c]) : c \in 0..MaxChannels}
  \cup
  {Pending("compression_ratio", [input_size |-> a, output_size |-> b]) :
     a \in Sizes, b \in Sizes}
  \cup
  {Pending("duration", [start_time |-> a, end_time |-> b]) :
     a \in 0..MaxSize, b \in Sizes}

\* the batch program is not running; one call is about to be made
CallInit ==
  /\ pc = "off"
  /\ fs = [d \in Range(DIRS) |-> NoDir]
  /\ inputDir = {}
  /\ missing \in {{}, {"ffprobe"}}
  /\ Locals0
  /\ call \in Calls
  /\ proc = NoProc
  /\ pool = NoPool

Return(out) ==
  /\ ~call.done
  /\ call' = [call EXCEPT !.done = TRUE, !.out = out]
  /\ UNCHANGED << progVars, proc, pool >>

CallGetAudioBitrate ==
  /\ call.fn = "get_audio_bitrate"
  /\ Return(get_audio_bitrate(call.in.channels))

CallCompressionRatio ==
  /\ call.fn = "compression_ratio"
  /\ Return(compression_ratio(call.in.input_size, call.in.output_size))

CallCleanupWorkingDirs ==
  /\ call.fn = "cleanup_working_dirs"
  /\ \E o \in CleanupOutcomes(call.in.fs) : Return(o)

CallDuration ==
  /\ call.fn = "duration"
  /\ Return(duration(call.in.start_time, call.in.end_time))

CallValidateSegments ==
  /\ call.fn = "validate_segments"
  /\ Return([errs |-> ValidateSegments(call.in.dir, call.in.min_segments),
             validated |-> ValidatedFiles(call.in.dir,
                                          call.in.min_segments)])

\* the listing at the head of encode_segments and of concatenate_segments
CallSortedGlob ==
  /\ call.fn = "sorted_glob"
  /\ Return(sorted({SegFormat(k) : k \in call.in.indexes}))

CallValidateVideoFile ==
  /\ call.fn = "validate_video_file"
  /\ Return(validate_video_file(call.in.file, call.in.step))

\* prepare_directories, and when it succeeded prepare_directories again
CallPrepareDirectories ==
  /\ call.fn = "prepare_directories"
  /\ \E first \in prepare_directories(call.in.fs) :
     \E second \in (IF first.err = None THEN prepare_directories(first.fs)
                    ELSE {first}) :
       Return([first |-> first, second |-> second])

CallNext ==
  \/ CallPrepareDirectories
  \/ CallCleanupWorkingDirs
  \/ CallDuration
  \/ CallValidateVideoFile
  \/ CallSortedGlob
  \/ CallValidateSegments
  \/ CallGetAudioBitrate
  \/ CallCompressionRatio

CallSpec == CallInit /\ [][CallNext]_vars

\* ------------------------------------------------------------ run_command
\* What the child does: it makes its writes, numbered in the order it makes
\* them, each to stdout or stderr and each either ending a line or leaving
\* it unfinished (no newline yet), then exits with its exit code.
Scripts ==
  UNION {[1..n -> {"stdout", "stderr"} \X BOOLEAN] : n \in 0..MaxLines}

\* the writes of `script` from position p on
RECURSIVE Writes(_, _)
Writes(script, p) ==
  IF p > Len(script) THEN <<>>
  ELSE <<[line |-> p, fd |-> script[p][1], nl |-> script[p][2]]>>
         \o Writes(script, p + 1)

\* ''.join of the lines of `script` that went to `fd`
RECURSIVE Joined(_, _)
Joined(ws, fd) ==
  IF ws = <<>> THEN <<>>
  ELSE (IF Head(ws).fd = fd THEN <<Head(ws).line>> ELSE <<>>)
         \o Joined(Tail(ws), fd)

\* run_command is entered: nothing started yet
Entered(cmd, check, script, code) ==
  [pc |-> "popen",
   cmd |-> cmd,
   check |-> check,
   script |-> script,            \* the child's program
   code |-> code,                \* the exit code it will end with
   todo |-> Writes(script, 1),   \* what the child has still to write
   alive |-> FALSE,              \* the child runs
   pipe |-> [fd \in {"stdout", "stderr"} |-> <<>>],
   ready |-> <<>>,               \* ret[0] of select, not yet handled
   stdout_lines |-> <<>>,
   stderr_lines |-> <<>>,
   result |-> [kind |-> None]]

RunCommandInit ==
  /\ pc = "off"
  /\ fs = [d \in Range(DIRS) |-> NoDir]
  /\ inputDir = {}
  /\ missing = {}
  /\ Locals0
  /\ call = NoCall
  /\ pool = NoPool
  /\ proc \in {Entered(cmd, check, script, code) :
                 cmd \in {"ffmpeg", "ffprobe"}, check \in BOOLEAN,
                 script \in Scripts, code \in {0, 1}}

Step(p) ==
  /\ proc' = p
  /\ UNCHANGED << progVars, call, pool >>

\* subprocess.Popen: the child is started, or the start fails and the
\* OSError leaves run_command
Popen ==
  /\ proc.pc = "popen"
  /\ \/ Step([proc EXCEPT !.pc = "select", !.alive = TRUE])
     \/ Step([proc EXCEPT !.pc = "done", !.result = [kind |-> "OSError"]])

\* the child writes its next line; the write blocks while the pipe is full
ChildWrite ==
  /\ proc.pc \notin {"off", "popen"}
  /\ proc.alive
  /\ proc.todo # <<>>
  /\ LET w == Head(proc.todo)
     IN /\ Len(proc.pipe[w.fd]) < PipeCap
        /\ Step([proc EXCEPT !.pipe[w.fd] = Append(@, w.line),
                             !.todo = Tail(@)])

\* the child has written everything and exits; its ends of the pipes close
ChildExit ==
  /\ proc.pc \notin {"off", "popen"}
  /\ proc.alive
  /\ proc.todo = <<>>
  /\ Step([proc EXCEPT !.alive = FALSE])

\* a descriptor is readable when its pipe holds data or is at end of file
Readable(fd) == proc.pipe[fd] # <<>> \/ ~proc.alive

\* ret = select.select([stdout_fd, stderr_fd], [], [])
Select ==
  /\ proc.pc = "select"
  /\ Readable("stdout") \/ Readable("stderr")
  /\ Step([proc EXCEPT
             !.pc = "read",
             !.ready = (IF Readable("stdout") THEN <<"stdout">> ELSE <<>>)
                       \o (IF Readable("stderr") THEN <<"stderr">> ELSE <<>>)])

\* for fd in ret[0]: line = readline(); if line: lines.append(line)
\* readline takes what the pipe holds and returns at a newline or at end of
\* file; until then the runner stays inside it
ReadLine ==
  /\ proc.pc = "read"
  /\ proc.ready # <<>>
  /\ LET fd == Head(proc.ready)
     IN IF proc.pipe[fd] # <<>>
        THEN LET w == Head(proc.pipe[fd])
             IN Step([proc EXCEPT
                        !.ready = IF proc.script[w][2] THEN Tail(@) ELSE @,
                        !.pipe[fd] = Tail(@),
                        !.stdout_lines =
                           IF fd = "stdout" THEN Append(@, w) ELSE @,
                        !.stderr_lines =
                           IF fd = "stderr" THEN Append(@, w) ELSE @])
        ELSE /\ ~proc.alive        \* end of file: readline returns
             /\ Step([proc EXCEPT !.ready = Tail(@)])

\* if process.poll() is not None: read what is left of both streams, break
Poll ==
  /\ proc.pc = "read"
  /\ proc.ready = <<>>
  /\ IF proc.alive
     THEN Step([proc EXCEPT !.pc = "select"])
     ELSE Step([proc EXCEPT
                  !.pc = "wait",
                  !.stdout_lines = @ \o proc.pipe["stdout"],
                  !.stderr_lines = @ \o proc.pipe["stderr"],
                  !.pipe = [fd \in {"stdout", "stderr"} |-> <<>>]])

\* variant: a non-zero exit raises whatever `check` says
RunCommandAlwaysChecks(check, return_code) ==
  IF return_code # 0 THEN "CalledProcessError" ELSE "return"

\* if check and return_code != 0: raise CalledProcessError(...); return ...
RunCommandOutcome(check, return_code) ==
  IF check /\ return_code # 0 THEN "CalledProcessError" ELSE "return"

\* return_code = process.wait(), the joins, and the way out
Wait ==
  /\ proc.pc = "wait"
  /\ ~proc.alive
  /\ Step([proc EXCEPT
             !.pc = "done",
             !.result = [kind |-> RunCommandOutcome(proc.check, proc.code),
                         returncode |-> proc.code,
                         cmd |-> proc.cmd,
                         stdout |-> proc.stdout_lines,
                         stderr |-> proc.stderr_lines]])

RunCommandNext ==
  \/ Popen
  \/ ChildWrite
  \/ ChildExit
  \/ Select
  \/ ReadLine
  \/ Poll
  \/ Wait

RunCommandSpec == RunCommandInit /\ [][RunCommandNext]_vars

\* ------------------------------------- validate_segments, worker by worker
\* ThreadPoolExecutor(): min(32, cpu_count + 4) worker threads, never fewer
\* than five
max_workers == 5

\* validate_segments has been entered
Validating(dir, min_segments, debug) ==
  [pc |-> "glob", dir |-> dir, min_segments |-> min_segments,
   debug |-> debug,      \* the logger's level is DEBUG (--debug)
   segments |-> <<>>,    \* list(directory.glob("*.mkv"))
   task |-> <<>>,        \* the future of every segment
   next |-> 1,           \* the future whose result the caller waits for
   out |-> None,         \* what validate_segments raises
   log |-> <<>>]         \* the records the logger's handlers have emitted

\* a record emitted through the logger shared by the caller and the workers
LogRecord(by, level, file) == [by |-> by, level |-> level, file |-> file]

\* Logger.isEnabledFor: debug records are emitted at level DEBUG only
Emit(log, debug, rec) ==
  IF rec.level = "debug" /\ ~debug THEN log ELSE Append(log, rec)

ValidateInit ==
  /\ pc = "off"
  /\ fs = [d \in Range(DIRS) |-> NoDir]
  /\ inputDir = {}
  /\ missing \in {{}, {"ffprobe"}}
  /\ Locals0
  /\ call = NoCall
  /\ proc = NoProc
  /\ pool \in {Validating(dir, m, debug) :
                 dir \in SegmentDirs, m \in 1..MaxSegments,
                 debug \in BOOLEAN}

PoolStep(p) ==
  /\ pool' = p
  /\ UNCHANGED << progVars, call, proc >>

Running == {i \in DOMAIN pool.task : pool.task[i] = "running"}

\* logger.info, the listing, the count check, and executor.map submitting
\* one task per listed file
SubmitAll ==
  /\ pool.pc = "glob"
  /\ \E listing \in Listings(GlobMkv(pool.dir)) :
       LET logged == Emit(pool.log, pool.debug,
                          LogRecord("caller", "info", ""))
       IN IF Len(listing) < pool.min_segments
          THEN PoolStep([pool EXCEPT !.pc = "done",
                                     !.out = "ValidationError",
                                     !.log = logged])
          ELSE PoolStep([pool EXCEPT !.pc = "map",
                                     !.segments = listing,
                                     !.task = [i \in DOMAIN listing |->
                                                 "queued"],
                                     !.log = logged])

\* a worker thread takes the oldest queued task and enters
\* validate_video_file: self.logger.debug("Validating file: ...")
WorkerStart ==
  /\ pool.pc \in {"map", "shutdown"}
  /\ Cardinality(Running) < max_workers
  /\ \E i \in DOMAIN pool.task :
       /\ pool.task[i] = "queued"
       /\ \A j \in 1..(i - 1) : pool.task[j] # "queued"
       /\ PoolStep([pool EXCEPT
                      !.task[i] = "running",
                      !.log = Emit(pool.log, pool.debug,
                                   LogRecord("worker", "debug",
                                             pool.segments[i]))])

\* the rest of validate_video_file in a worker: the checks of its file,
\* then self.logger.debug("Successfully validated: ...") or the exception
\* stored in the future
WorkerFinish ==
  /\ pool.pc \in {"map", "shutdown"}
  /\ \E i \in Running :
       LET res == validate_video_file(Stat(pool.dir, pool.segments[i]),
                                      "Segment validation")
       IN PoolStep([pool EXCEPT
                      !.task[i] = IF res = None THEN "passed" ELSE res,
                      !.log = IF res = None
                              THEN Emit(pool.log, pool.debug,
                                        LogRecord("worker", "debug",
                                                  pool.segments[i]))
                              ELSE pool.log])

\* list(executor.map(...)): the caller takes the results in the order of
\* submission; the first exception cancels the futures not yet started and
\* leaves the with block
Collect ==
  /\ pool.pc = "map"
  /\ IF pool.next > Len(pool.task)
     THEN PoolStep([pool EXCEPT !.pc = "shutdown"])
     ELSE /\ pool.task[pool.next] \notin {"queued", "running"}
          /\ IF pool.task[pool.next] = "passed"
             THEN PoolStep([pool EXCEPT !.next = pool.next + 1])
             ELSE PoolStep([pool EXCEPT
                    !.pc = "shutdown",
                    !.out = pool.task[pool.next],
                    !.task = [i \in DOMAIN pool.task |->
                                IF pool.task[i] = "queued" THEN "cancelled"
                                ELSE pool.task[i]]])

\* variant: the executor is shut down without waiting
WorkersJoinedNoWait(task) == TRUE

\* ThreadPoolExecutor.__exit__: shutdown(wait=True) returns once the
\* worker threads have ended, which they do when no task is queued or
\* running
WorkersJoined(task) ==
  \A i \in DOMAIN task : task[i] \notin {"queued", "running"}

\* the end of the with block: executor.shutdown(wait=True) returns when no
\* worker has a task left; then logger.info, or the exception propagates
Shutdown ==
  /\ pool.pc = "shutdown"
  /\ WorkersJoined(pool.task)
  /\ PoolStep([pool EXCEPT
                 !.pc = "done",
                 !.log = IF pool.out = None
                         THEN Emit(pool.log, pool.debug,
                                   LogRecord("caller", "info", ""))
                         ELSE pool.log])

ValidateNext ==
  \/ SubmitAll
  \/ WorkerStart
  \/ WorkerFinish
  \/ Collect
  \/ Shutdown

ValidateSpec == ValidateInit /\ [][ValidateNext]_vars

\* ---------------------------------------------------------- properties
\* process_video has handed control back to run() and nothing has touched
\* the workspace since
JustReturned == returned # None /\ pc \in {"loop", "summary", "final"}

\* the file and the job number of the latest process_video call
LastFile == calls[Len(calls)]
LastJob == Len(calls)

\* C1: whenever process_video hands control back to the batch runner, for
\* every outcome of the job, the segments, encoded_segments and working
\* directories exist and are empty.
C1_TransientEmptyAfterJob == JustReturned => TransientEmpty

\* C2: run() calls process_video exactly once on every discovered file, in
\* discovery order, whatever jobs fail, and a run that discovered files
\* ends with all of them called and the summary printed.
C2_EveryFileProcessedOnce ==
  /\ Len(calls) <= Len(input_files)
  /\ \A k \in 1..Len(calls) : calls[k] = input_files[k]
  /\ \A j, k \in 1..Len(input_files) :
       j # k => input_files[j] # input_files[k]
  /\ (pc = "done" /\ input_files # <<>>) =>
       (calls = input_files /\ summaryPrinted)

\* a finished batch of at least two files in which some job failed and
\* some job succeeded
C2_Witness ==
  /\ pc = "done"
  /\ Len(calls) >= 2
  /\ failures >= 1
  /\ failures < Len(calls)
  /\ summaryPrinted

\* C3: for every file on which process_video was invoked and raised, a Job
\* record exists in stats and its end_time is set, also when reading the
\* input size failed.
C3_FailedJobHasEndTime ==
  (JustReturned /\ returned # "ok") =>
    /\ LastFile.stem \in DOMAIN stats
    /\ stats[LastFile.stem].end_time # NoneNum

\* C4: when a job fails with E, process_video raises E to the batch runner
\* whatever the post-job reset does; a failing reset never replaces E.
C4_CleanupNeverMasks ==
  [][(jpc = "failed" /\ jpc' = "idle") => returned' = err]_vars

\* a stage failure followed by a failed post-job reset, back at the runner
C4_Witness ==
  /\ JustReturned
  /\ cleanupFailed
  /\ returned = "SegmentationError"
  /\ ~TransientEmpty

\* C5: in a run where a required tool is absent from PATH, process_video
\* is never invoked, no stage tool is invoked, and the run ends with a
\* ValidationError.
C5_MissingToolFailsFast ==
  missing # {} =>
    /\ calls = <<>>
    /\ jobOps = <<>>
    /\ (pc = "done" => runErr = "ValidationError")

\* C6: after a job that ended in failure the output directory holds no
\* file written by that job.
C6_NoOutputFromFailedJob ==
  (JustReturned /\ returned # "ok") =>
    \A g \in fs["output"].files : g.by # LastJob

\* C7: main returns 0 exactly when the directories were prepared and at
\* least one input file was discovered, however many jobs failed; it
\* returns non-zero when directory creation failed or no input was found.
C7_ExitCode ==
  pc = "done" =>
    /\ exitCode \in {0, 1}
    /\ (exitCode = 0 <=> input_files # <<>>)

\* a batch of two files that both failed and still exited with 0
C7_Witness ==
  /\ pc = "done"
  /\ exitCode = 0
  /\ Len(calls) >= 2
  /\ failures = Len(calls)

\* the Job Orchestrator state the position in process_video stands for
JobState ==
  CASE jpc = "idle" -> "Idle"
    [] jpc \in {"preclean", "detect"} -> "Pending"
    [] jpc = "segment" -> "Segmenting"
    [] jpc = "encode" -> "VideoEncoding"
    [] jpc = "concat" -> "Concatenating"
    [] jpc \in {"audio_probe", "audio_encode", "audio_validate"}
         -> "AudioEncoding"
    [] jpc = "remux" -> "Remuxing"
    [] jpc = "completed" -> "Completed"
    [] jpc \in {"except", "failed"} -> "Failed"

StageSteps ==
  { <<"Pending", "Segmenting">>, <<"Segmenting", "VideoEncoding">>,
    <<"VideoEncoding", "Concatenating">>,
    <<"Concatenating", "AudioEncoding">>, <<"AudioEncoding", "Remuxing">>,
    <<"Remuxing", "Completed">> }

OpNames(ops) == [k \in DOMAIN ops |-> ops[k].op]

\* the stage tools of a job run in order, each after the previous one
\* succeeded (the metadata probe may fail)
OpsInOrder ==
  \A p, q \in 1..Len(jobOps) :
    p < q =>
      /\ jobOps[p].ok \/ jobOps[p].op = "mediainfo"
      /\ <<jobOps[p].op, jobOps[q].op>> \in
           { <<"mediainfo", "segment">>, <<"segment", "encode">>,
             <<"encode", "encode">>, <<"encode", "concat">>,
             <<"concat", "audio_probe">>, <<"audio_probe", "audio_encode">>,
             <<"audio_encode", "audio_encode">>, <<"audio_probe", "remux">>,
             <<"audio_encode", "remux">> }
         \/ q > p + 1

\* C8: a job moves Pending -> Segmenting -> VideoEncoding -> Concatenating
\* -> AudioEncoding -> Remuxing -> Completed one step at a time, each stage
\* tool runs only after the previous one succeeded, the only other move is
\* to Failed, and Completed means remux wrote a validated final file.
C8_StageOrder ==
  /\ [][JobState' # JobState =>
          \/ <<JobState, JobState'>> \in StageSteps
          \/ JobState' = "Failed" /\ JobState \notin {"Idle", "Completed"}
          \/ JobState = "Idle" /\ JobState' = "Pending"
          \/ JobState \in {"Completed", "Failed"} /\ JobState' = "Idle"]_vars
  /\ [](OpsInOrder /\ (jobOps # <<>> => jobOps[1].op = "mediainfo"))
  /\ [](jpc = "completed" =>
          /\ jobOps[Len(jobOps)] = Op("remux", "", TRUE)
          /\ ValidateFinalOutput(fs["output"], OutName(vid_file),
                                 Len(audio_files)) = None)

\* a job that completed after encoding two segments and one audio track
C8_Witness ==
  /\ jpc = "completed"
  /\ Len(segments) = 2
  /\ Len(audio_files) = 1
  /\ OpNames(jobOps) = <<"mediainfo", "segment", "encode", "encode",
                         "concat", "audio_probe", "audio_encode", "remux">>

\* C9: once the encode of a segment failed, no further segment is encoded
\* and no concatenation, audio encoding or remux is invoked in that job,
\* and the job ends Failed.
C9_FailedSegmentAborts ==
  \A p \in 1..Len(jobOps) :
    (jobOps[p].op = "encode" /\ ~jobOps[p].ok) =>
      /\ p = Len(jobOps)
      /\ jpc \in {"except", "failed"}
      /\ err # None

\* a job of two segments in Failed after its first segment failed to encode
C9_Witness ==
  /\ jpc = "failed"
  /\ err = "InvalidVideoError"
  /\ Len(segments) = 2
  /\ jobOps[Len(jobOps)] = Op("encode", SegName(0), FALSE)

\* C10: whenever a job is about to invoke the segmentation tool, the
\* segments, encoded_segments and working directories exist and are empty,
\* whatever earlier jobs or runs left behind.
C10_CleanAtJobStart == jpc = "segment" => TransientEmpty

\* a later job about to segment after an earlier job had failed
C10_Witness ==
  /\ jpc = "segment"
  /\ idx >= 2
  /\ failures >= 1
  /\ TransientEmpty

\* the tool invocation a step has just appended to the job's history
Invoked(op) ==
  /\ Len(jobOps') = Len(jobOps) + 1
  /\ jobOps'[Len(jobOps')].op = op

\* the list handed to remux_tracks names one validated file per probed stream
RemuxInputsMatch ==
  /\ jpc = "remux"
  /\ Len(audio_files) = streams
  /\ stats[vid_file].audio_tracks = streams
  /\ \A i \in 0..(streams - 1) :
       /\ audio_files[i + 1] = AudioName(i)
       /\ Cardinality({g \in fs["working"].files : g.name = AudioName(i)}) = 1
       /\ Lookup(fs["working"], AudioName(i)).q = "ok"
       /\ Lookup(fs["working"], AudioName(i)).by = idx
       /\ "ffprobe" \notin missing

PassesFinal(dir, name, n) ==
  /\ name \in Names(dir)
  /\ FileSize(Lookup(dir, name)) >= MIN_FILE_SIZE
  /\ Lookup(dir, name).q = "ok"
  /\ "ffprobe" \notin missing
  /\ Lookup(dir, name).tracks = n

\* C12: remux_tracks returns normally only if the final file passes
\* validate_video_file and holds exactly as many audio streams as were
\* expected, neither fewer nor more; so the final file of every Completed
\* job holds exactly stats.audio_tracks audio streams.
C12_FinalTrackCount ==
  /\ [][(Invoked("remux") /\ jobOps'[Len(jobOps')].ok) =>
          PassesFinal(fs'["output"], OutName(vid_file), Len(audio_files))]_vars
  /\ [](jpc = "completed" =>
          /\ stats[vid_file].audio_tracks = Len(audio_files)
          /\ PassesFinal(fs["output"], OutName(vid_file),
                         stats[vid_file].audio_tracks))

\* a Completed job whose final file it wrote itself, with one audio stream
C12_Witness ==
  /\ jpc = "completed"
  /\ stats[vid_file].audio_tracks = 1
  /\ Lookup(fs["output"], OutName(vid_file)).by = idx
  /\ Lookup(fs["output"], OutName(vid_file)).tracks = 1

\* C13: however the metadata probe fails (non-zero exit, or the probe tool
\* cannot be started), detect_dolby_vision returns normally and the job
\* goes on to segmentation with no exception in flight.
C13_ProbeFailureNotFatal ==
  [][(Invoked("mediainfo") /\ ~jobOps'[Len(jobOps')].ok) =>
       (jpc' = "segment" /\ err' = None)]_vars

\* the audio probe of the running job reported zero streams
SilentJob ==
  /\ \E p \in 1..Len(jobOps) : jobOps[p] = Op("audio_probe", "", TRUE)
  /\ streams = 0

\* C14: when the audio probe reports zero streams, encode_audio_tracks
\* returns the empty list without an error and without invoking the audio
\* encoder, the job goes on to remux with zero audio inputs and
\* audio_tracks = 0, and such a job can reach Completed.
C14_SilentVideoValid ==
  /\ [][(Invoked("audio_probe") /\ jobOps'[Len(jobOps')].ok /\ streams' = 0)
          => /\ jpc' = "remux"
             /\ err' = None
             /\ audio_files' = <<>>
             /\ stats'[vid_file].audio_tracks = 0]_vars
  /\ [](SilentJob =>
          /\ \A p \in 1..Len(jobOps) : jobOps[p].op # "audio_encode"
          /\ audio_files = <<>>
          /\ (jpc = "completed" =>
                Lookup(fs["output"], OutName(vid_file)).tracks = 0))

\* a silent input whose job reached Completed with audio_tracks = 0
C14_Witness ==
  /\ jpc = "completed"
  /\ SilentJob
  /\ stats[vid_file].audio_tracks = 0
  /\ jobOps[Len(jobOps)] = Op("remux", "", TRUE)
  /\ Lookup(fs["output"], OutName(vid_file)).by = idx

Returned(fn) == call.fn = fn /\ call.done

\* C15: for every channel count C the audio bitrate is 64, 128, 256, 384
\* for C = 1, 2, 6, 8 and exactly C * 48 for every other C; the table wins
\* over the formula.
C15_AudioBitrate ==
  Returned("get_audio_bitrate") =>
    LET C == call.in.channels
    IN call.out = CASE C = 1 -> 64
                    [] C = 2 -> 128
                    [] C = 6 -> 256
                    [] C = 8 -> 384
                    [] OTHER -> C * 48

\* the 5.1 layout got the table value, which differs from 6 * 48
C15_Witness ==
  /\ Returned("get_audio_bitrate")
  /\ call.in.channels = 6
  /\ call.out = 256
  /\ call.out # call.in.channels * 48

\* C16: compression_ratio is undefined exactly when the output size is
\* unknown or zero, and is input_size / output_size for every other
\* combination of known sizes, an input size of zero included.
C16_CompressionRatio ==
  Returned("compression_ratio") =>
    LET a == call.in.input_size
        b == call.in.output_size
    IN /\ (b \in {NoneNum, 0}) => ~call.out.defined
       /\ (b \notin {NoneNum, 0} /\ a # NoneNum) =>
            call.out = Ratio(a, b)

\* C17: validate_segments raises ValidationError whenever the directory
\* holds fewer *.mkv files than min_segments, also when every file present
\* is valid, and then validates no file.
C17_TooFewSegments ==
  (Returned("validate_segments") /\
   Cardinality({g \in call.in.dir.files : g.name # "concat.txt"})
     < call.in.min_segments) =>
    /\ call.out.errs = {"ValidationError"}
    /\ call.out.validated = {}

\* one valid segment where two were required
C17_Witness ==
  /\ Returned("validate_segments")
  /\ call.in.min_segments = 2
  /\ call.in.dir.files = {File(SegName(0), "ok", 0, 0)}
  /\ missing = {}
  /\ call.out.errs = {"ValidationError"}

\* the numbers of a set in ascending order
RECURSIVE Ascending(_)
Ascending(S) ==
  IF S = {} THEN <<>>
  ELSE LET m == CHOOSE x \in S : \A y \in S : x <= y
       IN <<m>> \o Ascending(S \ {m})

\* C18: the segment listing used for encoding and for the concat manifest
\* is in ascending lexicographic order of the file names, and for the
\* zero-padded 4-digit names of at most 9999 segments that is the order of
\* the segment numbers.
C18_LexicographicIsTemporal ==
  Returned("sorted_glob") =>
    LET order == Ascending(call.in.indexes)
    IN /\ Len(call.out) = Len(order)
       /\ \A p, q \in 1..Len(call.out) :
            p < q => StrLess(call.out[p], call.out[q])
       /\ \A p \in 1..Len(call.out) : call.out[p] = SegFormat(order[p])

\* segments 9, 10 and 1000 listed in that order
C18_Witness ==
  /\ Returned("sorted_glob")
  /\ call.in.indexes = {9, 10, 1000}
  /\ call.out = <<SegFormat(9), SegFormat(10), SegFormat(1000)>>
  /\ Len(SegFormat(9)) = 8

\* C19: the output directory is append-only across the jobs of a batch:
\* distinct input files, also ones that differ only in a supported
\* extension, get distinct final output paths, and a file that a job wrote
\* to the output directory is never replaced by another job.
C19_OutputAppendOnly ==
  /\ [](\A j, k \in 1..Len(calls) :
          j # k => OutName(calls[j].stem) # OutName(calls[k].stem))
  /\ [][\A g \in fs["output"].files :
          g.by >= 1 => g \in fs'["output"].files]_vars

\* run_command has returned or raised after its child ran
Ended == proc.pc = "done" /\ proc.result.kind # "OSError"

\* C20: run_command ends only after the child terminated; it returns
\* (exit code, stdout text, stderr text), unless check is set and the exit
\* code is non-zero, when it raises CalledProcessError carrying the
\* command, the exit code and both captured streams; with check false a
\* non-zero code is returned.
C20_RunCommandContract ==
  Ended =>
    /\ ~proc.alive
    /\ proc.todo = <<>>
    /\ proc.result.kind =
         (IF proc.check /\ proc.code # 0 THEN "CalledProcessError"
          ELSE "return")
    /\ proc.result.returncode = proc.code
    /\ proc.result.cmd = proc.cmd
    /\ proc.result.stdout = Joined(Writes(proc.script, 1), "stdout")
    /\ proc.result.stderr = Joined(Writes(proc.script, 1), "stderr")

\* a call with check false returned the exit code 1 of a child that wrote
\* to both streams
C20_Witness ==
  /\ Ended
  /\ ~proc.check
  /\ proc.code = 1
  /\ proc.result.kind = "return"
  /\ proc.result.stdout # <<>>
  /\ proc.result.stderr # <<>>

\* run_command is under way and neither the runner nor the child can move
Deadlocked ==
  /\ proc.pc \notin {"off", "done"}
  /\ ~ENABLED RunCommandNext

\* C21: for every interleaving of the child's writes to stdout and stderr
\* over bounded pipes, a partial line on one stream while the other pipe
\* fills up included, the runner never ends up waiting on one stream while
\* the child waits for the other to be drained.
C21_NoDeadlock == ~Deadlocked

\* C22: on every path out of run() -- after the summary was printed, and
\* when run() ends with a fatal error because the directories could not be
\* created or no input file was found -- the finally block has attempted
\* the transient-workspace reset.
C22_FinalResetOnEveryPath ==
  [][(pc # "main" /\ pc' = "done") =>
       /\ pc = "final"
       /\ finalReset'
       /\ \E o \in CleanupOutcomes(fs) : fs' = o.fs]_vars

\* run() ended with the fatal error of an empty input directory, and the
\* final reset emptied the leftovers of an earlier run
C22_Witness ==
  /\ pc = "done"
  /\ runErr = "VideoEncoderError"
  /\ input_files = <<>>
  /\ finalReset
  /\ TransientEmpty
  /\ fs["input"].exists

\* C23: outside a job -- before the first one, and after process_video
\* returned or raised, whatever the stages and the post-job cleanup did --
\* the logger's current-file context is None.
C23_ContextCleared ==
  /\ jpc = "idle" => current_file = None
  /\ jpc # "idle" => current_file = FileName(input_files[idx])

\* back at the runner after a job failed and its post-job reset failed too
C23_Witness ==
  /\ JustReturned
  /\ returned \notin {"ok", "OSError"}
  /\ cleanupFailed
  /\ current_file = None

\* the job is in its except block or past it, and the stage tool it invoked
\* last was `op`, which failed
FailedIn(op) ==
  /\ jpc \in {"except", "failed"}
  /\ jobOps # <<>>
  /\ jobOps[Len(jobOps)].op = op
  /\ ~jobOps[Len(jobOps)].ok

\* C24: every failure that leaves encode_segment -- a non-zero exit of the
\* encoder, or a produced file that is missing, too small or invalid -- is
\* an EncodingError.
C24_EncodeFailureKind == FailedIn("encode") => err = "EncodingError"

\* C25: every failure that leaves segment_video, concatenate_segments or
\* remux_tracks, from a non-zero exit of the tool or from the validation
\* that follows it, is a SegmentationError, ConcatenationError or
\* RemuxError respectively; no raw process or validation failure escapes.
C25_StageFailureKind ==
  /\ FailedIn("segment") => err = "SegmentationError"
  /\ FailedIn("concat") => err = "ConcatenationError"
  /\ FailedIn("remux") => err = "RemuxError"

\* a remux that exited 0 and whose final file failed validation left as
\* RemuxError
C25_Witness ==
  /\ FailedIn("remux")
  /\ err = "RemuxError"
  /\ "ffmpeg" \notin missing
  /\ OutName(vid_file) \in Names(fs["output"])
  /\ Lookup(fs["output"], OutName(vid_file)).by = idx
  /\ Lookup(fs["output"], OutName(vid_file)).q = "small"

\* C26: validate_video_file reports the first check that fails, in a fixed
\* order: FileNotFoundError when the path is no regular file, whatever
\* else holds; otherwise FileSizeError when the size is below the minimum
\* (exactly the minimum passes); otherwise InvalidVideoError when the
\* prober rejects the file; it succeeds only when all three checks pass,
\* and the context label has no influence.
C26_ValidateFileOrder ==
  Returned("validate_video_file") =>
    LET f == call.in.file
    IN /\ f.kind # "file" => call.out = "FileNotFoundError"
       /\ (f.kind = "file" /\ f.size < MIN_FILE_SIZE) =>
            call.out = "FileSizeError"
       /\ (f.kind = "file" /\ f.size >= MIN_FILE_SIZE /\ ~f.valid
             /\ "ffprobe" \notin missing) =>
            call.out = "InvalidVideoError"
       /\ call.out = None =>
            (f.kind = "file" /\ f.size >= MIN_FILE_SIZE /\ f.valid)
       /\ (f.kind = "file" /\ f.size >= MIN_FILE_SIZE /\ f.valid
             /\ "ffprobe" \notin missing) =>
            call.out = None

\* a valid file of exactly the minimum size passed
C26_Witness ==
  /\ Returned("validate_video_file")
  /\ call.in.file = [kind |-> "file", size |-> MIN_FILE_SIZE, valid |-> TRUE]
  /\ call.out = None

\* C27: from any subset of the six directories existing with any contents,
\* prepare_directories can succeed; when it does all six exist, and
\* whether it does or not the directories that existed keep their
\* contents; a second call changes nothing.
C27_PrepareIdempotent ==
  Returned("prepare_directories") =>
    LET f == call.in.fs
        first == call.out.first
        second == call.out.second
    IN /\ \E o \in prepare_directories(f) : o.err = None
       /\ \A d \in Range(DIRS) : f[d].exists => first.fs[d] = f[d]
       /\ first.err = None =>
            /\ \A d \in Range(DIRS) :
                 /\ first.fs[d].exists
                 /\ ~f[d].exists => first.fs[d] = EmptyDir
            /\ second.fs = first.fs

\* prepare succeeded twice on a workspace where only input and output
\* existed, output holding a file
C27_Witness ==
  /\ Returned("prepare_directories")
  /\ call.in.fs = [d \in Range(DIRS) |->
                     IF d = "input" THEN EmptyDir
                     ELSE IF d = "output" THEN StaleDir ELSE NoDir]
  /\ call.out.first.err = None
  /\ call.out.second.err = None
  /\ call.out.second.fs["output"] = StaleDir
  /\ call.out.second.fs["segments"] = EmptyDir

\* C28: discovery leaves exactly the entries of the input directory with a
\* supported extension, each once and in ascending path order, and the
\* batch moves on to the loop; when there is no such entry it raises
\* VideoEncoderError and run() goes to its final reset; while no file has
\* been discovered no job is started.
C28_Discovery ==
  /\ [][pc = "discover" =>
          LET wanted == {f \in inputDir :
                           f.ext \in Range(SUPPORTED_FORMATS)}
          IN IF wanted = {}
             THEN /\ runErr' = "VideoEncoderError"
                  /\ pc' = "final"
                  /\ input_files' = <<>>
             ELSE /\ runErr' = None
                  /\ pc' = "loop"
                  /\ Range(input_files') = wanted
                  /\ Len(input_files') = Cardinality(wanted)
                  /\ \A j, k \in 1..Len(input_files') :
                       j < k => PathRank(input_files'[j])
                                  < PathRank(input_files'[k])]_vars
  /\ [](input_files = <<>> =>
          /\ calls = <<>>
          /\ jpc = "idle"
          /\ jobOps = <<>>
          /\ DOMAIN stats = {})

\* two files found by different patterns, in the opposite of their path
\* order
C28_Witness ==
  /\ pc = "loop"
  /\ inputDir = {[stem |-> "a", ext |-> "mp4"], [stem |-> "b", ext |-> "mkv"]}
  /\ input_files = <<[stem |-> "a", ext |-> "mp4"],
                     [stem |-> "b", ext |-> "mkv"]>>

StageOps == {"segment", "encode", "concat", "audio_encode", "remux"}

\* C29: within one job no stage operation (segmentation, the encode of a
\* segment, concatenation, the encode of an audio track, remux) is invoked
\* twice, and none is invoked after one of them failed.
C29_NoRetry ==
  \A p, q \in 1..Len(jobOps) :
    (p < q /\ jobOps[p].op \in StageOps /\ jobOps[q].op \in StageOps) =>
      /\ jobOps[p].ok
      /\ <<jobOps[p].op, jobOps[p].arg>> # <<jobOps[q].op, jobOps[q].arg>>

\* the second job of a batch whose first job failed: segmentation was
\* invoked once, failed, and no stage operation followed
C29_Witness ==
  /\ jpc = "failed"
  /\ idx = 2
  /\ FailedIn("segment")
  /\ Cardinality({p \in 1..Len(jobOps) : jobOps[p].op \in StageOps}) = 1
  /\ failures = 1

EncodeReturned ==
  jpc \in {"concat", "audio_probe", "audio_encode", "audio_validate", "remux",
           "completed"}

\* C31: once encode_segments has returned in a job, the encoded-segments
\* directory holds under every segment's name exactly one file, written by
\* this job, that passes validate_video_file, it holds no other *.mkv
\* file, and there is at least one segment.
C31_EncodedOneToOne ==
  EncodeReturned =>
    /\ GlobMkv(fs["segments"]) # {}
    /\ GlobMkv(fs["encoded_segments"]) = GlobMkv(fs["segments"])
    /\ Range(segments) = GlobMkv(fs["segments"])
    /\ \A n \in GlobMkv(fs["segments"]) :
         /\ Cardinality({g \in fs["encoded_segments"].files :
                           g.name = n}) = 1
         /\ Lookup(fs["encoded_segments"], n).by = idx
         /\ ValidateVideoFile(fs["encoded_segments"], n) = None

\* encode_segments has just returned for two segments, in the second job
\* of a batch
C31_Witness ==
  /\ jpc = "concat"
  /\ idx = 2
  /\ Len(segments) = 2
  /\ GlobMkv(fs["encoded_segments"]) = {SegName(0), SegName(1)}

\* C32: there is one Job record for every file that began processing, and
\* the step that begins a job leaves every record that exists as it is.
C32_RecordsRetained ==
  /\ [](Cardinality(DOMAIN stats) = Len(processed_videos))
  /\ [][Len(processed_videos') > Len(processed_videos) =>
          \A s \in DOMAIN stats :
            s \in DOMAIN stats' /\ stats'[s] = stats[s]]_vars

\* C33: once concatenate_segments has finished, with or without a
\* failure, the manifest concat.txt is no longer in the encoded-segments
\* directory; the manifest is never among the listed segments.
C33_ManifestDeleted ==
  /\ "concat.txt" \notin Range(segments)
  /\ "concat.txt" \notin GlobMkv(fs["encoded_segments"])
  /\ (jobOps # <<>> /\ jobOps[Len(jobOps)].op = "concat") =>
       "concat.txt" \notin Names(fs["encoded_segments"])

\* how far run() has come
PcRank ==
  CASE pc = "main" -> 0
    [] pc = "prepare" -> 1
    [] pc = "discover" -> 2
    [] pc = "loop" -> 3
    [] pc = "summary" -> 4
    [] pc = "final" -> 5
    [] pc = "done" -> 6

\* how far the running job has come
JpcRank ==
  CASE jpc = "idle" -> 0
    [] jpc = "preclean" -> 1
    [] jpc = "detect" -> 2
    [] jpc = "segment" -> 3
    [] jpc = "encode" -> 4
    [] jpc = "concat" -> 5
    [] jpc = "audio_probe" -> 6
    [] jpc = "audio_encode" -> 7
    [] jpc = "audio_validate" -> 8
    [] jpc = "remux" -> 9
    [] jpc = "completed" -> 10
    [] jpc = "except" -> 11
    [] jpc = "failed" -> 12

\* the position of the program: the statement of run(), the file, the
\* stage of its job, the segment and the audio track being encoded
Progress == <<PcRank, idx, JpcRank, segPos, Len(audio_files)>>

RECURSIVE LexLess(_, _)
LexLess(a, b) ==
  /\ a # <<>>
  /\ \/ Head(a) < Head(b)
     \/ Head(a) = Head(b) /\ LexLess(Tail(a), Tail(b))

\* C34: every step, each of which ends when the external process it waits
\* for ends, moves the program forward through a bounded sequence of
\* positions, and a step is possible until run() has ended, so run()
\* terminates; when it has, process_video has returned or raised for every
\* discovered file, no job is at a stage, and every Job record has its end
\* time.
C34_RunTerminates ==
  /\ [][LexLess(Progress, Progress')]_vars
  /\ [](/\ idx <= Len(input_files) + 1
        /\ segPos <= Len(segments) + 1
        /\ Len(segments) <= MaxSegments
        /\ Len(audio_files) <= MaxTracks
        /\ Len(input_files) <= MaxFiles)
  /\ [](pc # "done" => ENABLED Next)
  /\ [](pc = "done" =>
          /\ calls = input_files
          /\ jpc = "idle"
          /\ \A s \in DOMAIN stats : stats[s].end_time # NoneNum)

\* run() has ended after two files with two Job records, one job failed
C34_Witness ==
  /\ pc = "done"
  /\ Len(input_files) = 2
  /\ Cardinality(DOMAIN stats) = 2
  /\ failures = 1

\* this step hands control from process_video back to the loop of run()
HandsBack == Len(calls') > Len(calls) \/ (jpc # "idle" /\ jpc' = "idle")

\* C35: one job is in flight at a time: process_video is entered only
\* while no job is at a stage; it hands control back to the loop only from
\* a job that reached Completed or Failed, in the step of its finally
\* block, which attempts the reset of the transient directories; and the
\* final reset of run() happens with no job at a stage and, when files were
\* discovered, after the job of the last one.
C35_OneJobInFlight ==
  /\ [][Len(calls') > Len(calls) => jpc = "idle"]_vars
  /\ [][(HandsBack /\ returned' # None) =>
          /\ jpc \in {"completed", "failed"}
          /\ \E o \in CleanupOutcomes(fs) : fs' = o.fs]_vars
  /\ [][(pc = "final" /\ pc' = "done") =>
          /\ jpc = "idle"
          /\ calls = input_files]_vars

\* C36: the duration of a Job is 0 while end_time is None and
\* end_time - start_time for every end_time that is set, an end time of 0
\* and one before the start time included.
C36_Duration ==
  Returned("duration") =>
    /\ call.in.end_time = NoneNum => call.out = 0
    /\ call.in.end_time # NoneNum =>
         call.out + call.in.start_time = call.in.end_time

\* a job that started at 1 with an end time of 0 on the clock
C36_Witness ==
  /\ Returned("duration")
  /\ call.in.start_time = 1
  /\ call.in.end_time = 0
  /\ call.out = 0 - 1

\* C37: whether cleanup_working_dirs succeeds or fails, the input, output
\* and logs directories are afterwards as they were, contents included; a
\* transient directory is then as it was, or empty, or missing; when the
\* call succeeds the three transient directories exist and are empty, and
\* when it fails it raises CleanupError.
C37_CleanupFootprint ==
  Returned("cleanup_working_dirs") =>
    /\ \A d \in Range(DIRS) \ Range(TransientDirs) :
         call.out.fs[d] = call.in.fs[d]
    /\ \A d \in Range(TransientDirs) :
         call.out.fs[d] \in {call.in.fs[d], EmptyDir, NoDir}
    /\ call.out.err \in {None, "CleanupError"}
    /\ call.out.err = None =>
         \A d \in Range(TransientDirs) : call.out.fs[d] = EmptyDir

\* a reset that failed at the second directory, in a workspace whose six
\* directories all held a file
C37_Witness ==
  /\ Returned("cleanup_working_dirs")
  /\ \A d \in Range(DIRS) : call.in.fs[d] = StaleDir
  /\ call.out.err = "CleanupError"
  /\ call.out.fs["segments"] = EmptyDir
  /\ call.out.fs["encoded_segments"] = NoDir
  /\ call.out.fs["working"] = StaleDir
  /\ call.out.fs["output"] = StaleDir

\* the running job failed in its pre-job reset
PreResetFailed == jpc \in {"except", "failed"} /\ err = "CleanupError"

\* C38: a pre-job reset that fails raises CleanupError inside the try
\* block; for that job no tool is invoked, its record gets an end time,
\* the finally block attempts the post-job reset and process_video raises
\* CleanupError to run(), which goes on with the next file.
C38_PreResetFailureContained ==
  /\ [][(jpc = "preclean" /\ ~TransientEmpty') =>
          (jpc' = "except" /\ err' = "CleanupError")]_vars
  /\ [](PreResetFailed => jobOps = <<>>)
  /\ []((PreResetFailed /\ jpc = "failed") =>
          stats[vid_file].end_time # NoneNum)
  /\ [][(PreResetFailed /\ jpc' = "idle") =>
          /\ jpc = "failed"
          /\ \E o \in CleanupOutcomes(fs) : fs' = o.fs
          /\ returned' = "CleanupError"
          /\ runErr' = None
          /\ idx' = idx + 1
          /\ pc' = IF idx < Len(input_files) THEN "loop" ELSE "summary"]_vars

\* the first job of a batch of two failed in its pre-job reset and run()
\* is about to start the second
C38_Witness ==
  /\ JustReturned
  /\ returned = "CleanupError"
  /\ pc = "loop"
  /\ idx = 2
  /\ Len(calls) = 1
  /\ stats[calls[1].stem].end_time # NoneNum

\* the stage tool `op` ran in the running job and succeeded
Succeeded(op) == \E p \in 1..Len(jobOps) : jobOps[p].op = op /\ jobOps[p].ok

\* C39: in the record of the running job segment_count is set only after a
\* successful segmentation, audio_tracks only after the probe and the
\* encode of every stream succeeded and the encoded tracks validate, and
\* output_size only after a successful remux with the job Completed; a
\* Failed job has no output_size and no compression ratio; a Completed job
\* has segment_count >= 1, audio_tracks, output_size and end_time set, and
\* so has every record with an output_size.
C39_FieldsFollowStages ==
  /\ jpc # "idle" =>
       LET job == stats[vid_file]
       IN /\ job.segment_count # NoneNum =>
               (Succeeded("segment") /\ job.segment_count >= 1)
          /\ job.audio_tracks # NoneNum =>
               /\ Succeeded("audio_probe")
               /\ job.audio_tracks = streams
               /\ \A i \in 0..(streams - 1) :
                    Op("audio_encode", AudioName(i), TRUE) \in Range(jobOps)
               /\ ValidateAudioTracks(fs["working"], 0, streams) = None
          /\ job.output_size # NoneNum =>
               (Succeeded("remux") /\ jpc = "completed")
          /\ jpc \in {"except", "failed"} =>
               /\ job.output_size = NoneNum
               /\ compression_ratio(job.input_size, job.output_size)
                    = NoRatio
          /\ jpc = "completed" =>
               /\ job.segment_count >= 1
               /\ job.audio_tracks # NoneNum
               /\ job.output_size # NoneNum
               /\ job.end_time # NoneNum
  /\ \A s \in DOMAIN stats :
       stats[s].output_size # NoneNum =>
         /\ stats[s].segment_count >= 1
         /\ stats[s].audio_tracks # NoneNum
         /\ stats[s].end_time # NoneNum

\* the second job for the stem "a" failed in the encode of its audio
\* track, with its segment count recorded, where the first had completed
C39_Witness ==
  /\ jpc = "failed"
  /\ idx = 2
  /\ vid_file = "a"
  /\ failures = 0
  /\ FailedIn("audio_encode")
  /\ stats["a"].segment_count = 2
  /\ stats["a"].audio_tracks = NoneNum
  /\ stats["a"].output_size = NoneNum

\* C40: when validate_segments has returned or raised, every validation
\* it started has finished and none is waiting to start: each task has
\* passed, has raised, or was cancelled before a worker took it; from then
\* on nothing of the call changes.
C40_NoWorkerLeft ==
  /\ [](pool.pc = "done" =>
          \A i \in DOMAIN pool.task :
            pool.task[i] \notin {"queued", "running"})
  /\ [][pool.pc = "done" => pool' = pool]_vars

\* validate_segments raised the error of the file listed first while the
\* validation of the second, already started, ran to its end
C40_Witness ==
  /\ pool.pc = "done"
  /\ Len(pool.task) = 2
  /\ pool.out = "InvalidVideoError"
  /\ pool.task[1] = "InvalidVideoError"
  /\ pool.task[2] = "passed"

====
